---------------------------- MODULE Spec2Model ----------------------------
(***************************************************************************)
(* The polling state machine of firmware/src/app.c: APP_Initialize,        *)
(* APP_Tasks and set_state, together with the filesystem and console       *)
(* collaborators APP_Tasks calls.  One step of the model is one call of    *)
(* APP_Tasks by the superloop.  The results of the SYS_FS_* calls are the  *)
(* environment's choice.                                                   *)
(***************************************************************************)
EXTENDS Integers, Sequences, FiniteSets

(***************************************************************************)
(* Bounds of the model.  The counter width and the throttle interval are   *)
(* 32 and 100000 in the program; the model keeps the arithmetic and        *)
(* shrinks the numbers so that a wrap of the counter is reachable.         *)
(***************************************************************************)
\* width in bits of mount_retries (uint32_t in the program)
RetryBits == 3
\* the throttle interval of the "not ready" log (100000 in the program)
ThrottleInterval == 3
\* failed mount attempts the environment may still add after the counter wrapped
FailuresPastWrap == 2
\* entries the directory delivers at most before its terminator
MaxEntries == 2
\* calls of APP_Tasks counted in a terminal state
MaxTerminalTicks == 2

RetryModulus == 2 ^ RetryBits
MaxMountFailures == RetryModulus + FailuresPastWrap

(***************************************************************************)
(* app_state_t: the enumerators in the order APP_STATES lists them.        *)
(***************************************************************************)
APP_STATE_IDLE == 0
APP_STATE_AWAIT_FILESYSTEM == 1
APP_STATE_OPENING_DIRECTORY == 2
APP_STATE_READING_DIRECTORY == 3
APP_STATE_CLOSING_DIRECTORY == 4
APP_STATE_COMPLETE == 5
APP_STATE_ERROR == 6

States == APP_STATE_IDLE .. APP_STATE_ERROR

s_state_names ==
  << "APP_STATE_IDLE", "APP_STATE_AWAIT_FILESYSTEM",
     "APP_STATE_OPENING_DIRECTORY", "APP_STATE_READING_DIRECTORY",
     "APP_STATE_CLOSING_DIRECTORY", "APP_STATE_COMPLETE", "APP_STATE_ERROR" >>

N_STATES == Len(s_state_names)

\* s_state_names[] is indexed from 0 in C and from 1 here
state_name(s) == s_state_names[s + 1]

TerminalStates == {APP_STATE_COMPLETE, APP_STATE_ERROR}

(***************************************************************************)
(* The collaborators' values.                                              *)
(***************************************************************************)
SYS_FS_RES_SUCCESS == "SYS_FS_RES_SUCCESS"
SYS_FS_RES_FAILURE == "SYS_FS_RES_FAILURE"
SYS_FS_RESULT == {SYS_FS_RES_SUCCESS, SYS_FS_RES_FAILURE}

SYS_FS_HANDLE_INVALID == "SYS_FS_HANDLE_INVALID"
\* the valid handles SYS_FS_DirOpen may return
ValidHandles == {"h1", "h2"}
SYS_FS_HANDLE == ValidHandles \cup {SYS_FS_HANDLE_INVALID}
NoHandle == "n/a"

\* SYS_FS_FSTAT as SYS_FS_DirRead fills it: short name, long name, size
DirEntries ==
  { [fname |-> "A.TXT",    lfname |-> "",             fsize |-> 0],
    [fname |-> "B.TXT",    lfname |-> "",             fsize |-> 5],
    [fname |-> "LONGNA~1", lfname |-> "longname.txt", fsize |-> 7],
    [fname |-> "",         lfname |-> "only-long",    fsize |-> 9] }
EndOfDirectory == [fname |-> "", lfname |-> "", fsize |-> 0]

FsOps == {"SYS_FS_Mount", "SYS_FS_CurrentDriveSet", "SYS_FS_Error",
          "SYS_FS_DirOpen", "SYS_FS_DirRead", "SYS_FS_DirClose"}

VARIABLES
  state,           \* s_app_ctx.state
  mount_retries,   \* s_app_ctx.mount_retries
  dir_handle,      \* s_app_ctx.dir_handle
  debug_log,       \* the SYS_DEBUG_PRINT calls made so far, in order
  console,         \* the SYS_CONSOLE_PRINT / SYS_CONSOLE_MESSAGE calls so far
  fs_calls,        \* the SYS_FS_* calls of the most recent APP_Tasks call
  fs_count,        \* per SYS_FS_* function, the calls made so far
  fs_failed,       \* the SYS_FS_* functions that have reported a failure
  mount_failures,  \* the failed SYS_FS_Mount attempts so far
  supplied,        \* the entries SYS_FS_DirRead has delivered so far
  ticks,           \* per state, the APP_Tasks calls executed in it
  visited,         \* the distinct states in the order they were entered
  ss_arg           \* the argument of the last direct call of set_state

vars == << state, mount_retries, dir_handle, debug_log, console, fs_calls,
           fs_count, fs_failed, mount_failures, supplied, ticks, visited,
           ss_arg >>

ctx == << state, mount_retries, dir_handle >>

(***************************************************************************)
(* Log and console records.                                                *)
(***************************************************************************)
DebugMsg(sev, fmt, old, new, n) ==
  [sev |-> sev, fmt |-> fmt, old |-> old, new |-> new, n |-> n]

TransitionLog(s, t) ==
  DebugMsg("SYS_ERROR_DEBUG", "%s => %s", state_name(s), state_name(t), 0)

ConsoleMsg(fmt, fsize, fname) == [fmt |-> fmt, fsize |-> fsize, fname |-> fname]

Banner == ConsoleMsg("banner", 0, "")
HeaderLine == ConsoleMsg("size (bytes) filename", 0, "")
CompleteLine == ConsoleMsg("Directory listing complete", 0, "")
EntryLine(stat) == ConsoleMsg("%12ld %s", stat.fsize, stat.fname)

FsCall(op, h) == [op |-> op, handle |-> h]

(***************************************************************************)
(* set_state: log the transition and commit the state, when it differs.    *)
(***************************************************************************)
set_state_Unconditional(s, log, t) ==
  [state |-> t, log |-> Append(log, TransitionLog(s, t))]

\* commits the state before it logs the transition
set_state_CommitFirst(s, log, t) ==
  IF s # t
    THEN [state |-> t, log |-> Append(log, TransitionLog(t, t))]
    ELSE [state |-> s, log |-> log]

set_state(s, log, t) ==
  IF s # t
    THEN [state |-> t, log |-> Append(log, TransitionLog(s, t))]
    ELSE [state |-> s, log |-> log]

(***************************************************************************)
(* APP_Initialize.                                                         *)
(***************************************************************************)
Init ==
  /\ state = APP_STATE_IDLE
  /\ mount_retries = 0
  /\ dir_handle = SYS_FS_HANDLE_INVALID
  /\ debug_log = << >>
  /\ console = << Banner >>
  /\ fs_calls = << >>
  /\ fs_count = [op \in FsOps |-> 0]
  /\ fs_failed = {}
  /\ mount_failures = 0
  /\ supplied = << >>
  /\ ticks = [s \in States |-> 0]
  /\ visited = << APP_STATE_IDLE >>
  /\ ss_arg = -1

(***************************************************************************)
(* What every call of APP_Tasks records: the state it ran in, the          *)
(* SYS_FS_* calls it made, and the state it ended in.                      *)
(***************************************************************************)
Ticked(s) == [ticks EXCEPT ![s] = @ + 1]

Counted(calls) ==
  [op \in FsOps |->
     fs_count[op] + Cardinality({i \in 1 .. Len(calls) : calls[i].op = op})]

Entered(new) == IF new # state THEN Append(visited, new) ELSE visited

Commit(r) ==
  /\ state' = r.state
  /\ debug_log' = r.log
  /\ visited' = Entered(r.state)

Tick(calls) ==
  /\ ticks' = Ticked(state)
  /\ fs_calls' = calls
  /\ fs_count' = Counted(calls)
  /\ ss_arg' = ss_arg

(***************************************************************************)
(* APP_Tasks, one action per case of the switch.                           *)
(***************************************************************************)
TasksIdle_SkipMount ==
  /\ state = APP_STATE_IDLE
  /\ Commit(set_state(state, debug_log, APP_STATE_OPENING_DIRECTORY))
  /\ Tick(<< >>)
  /\ UNCHANGED << mount_retries, dir_handle, console, fs_failed,
                  mount_failures, supplied >>

TasksIdle ==
  /\ state = APP_STATE_IDLE
  /\ Commit(set_state(state, debug_log, APP_STATE_AWAIT_FILESYSTEM))
  /\ Tick(<< >>)
  /\ UNCHANGED << mount_retries, dir_handle, console, fs_failed,
                  mount_failures, supplied >>


(***************************************************************************)
(* APP_STATE_AWAIT_FILESYSTEM: count the attempt, try to mount; on success *)
(* select the drive, on failure log every ThrottleInterval-th attempt.     *)
(***************************************************************************)
throttle_due_OffByOne(retries) == (retries + 1) % ThrottleInterval = 0

throttle_due(retries) == retries % ThrottleInterval = 0

drive_set_failed_Ignored(res) == FALSE

drive_set_failed(res) == res = SYS_FS_RES_FAILURE

\* gives up, with an error, at the attempt at which the throttled log is due
TasksAwaitFilesystem_RetryBudget ==
  /\ state = APP_STATE_AWAIT_FILESYSTEM
  /\ \E mount_res \in SYS_FS_RESULT :
       LET retries == (mount_retries + 1) % RetryModulus
           mount == FsCall("SYS_FS_Mount", NoHandle)
       IN
       /\ mount_retries' = retries
       /\ IF mount_res = SYS_FS_RES_SUCCESS
            THEN /\ Commit(set_state(state,
                             Append(debug_log,
                               DebugMsg("SYS_ERROR_DEBUG",
                                        "SD card mounted after %ld attempts",
                                        "", "", retries)),
                             APP_STATE_OPENING_DIRECTORY))
                 /\ Tick(<< mount, FsCall("SYS_FS_CurrentDriveSet", NoHandle) >>)
                 /\ fs_failed' = fs_failed
                 /\ mount_failures' = mount_failures
            ELSE /\ mount_failures < MaxMountFailures
                 /\ mount_failures' = mount_failures + 1
                 /\ fs_failed' = fs_failed \cup {"SYS_FS_Mount"}
                 /\ IF throttle_due(retries)
                      THEN Commit(set_state(state,
                                    Append(debug_log,
                                      DebugMsg("SYS_ERROR_INFO",
                                               "SD card not ready after %ld attempts",
                                               "", "", retries)),
                                    APP_STATE_ERROR))
                      ELSE /\ state' = state
                           /\ debug_log' = debug_log
                           /\ visited' = visited
                 /\ Tick(<< mount >>)
  /\ UNCHANGED << dir_handle, console, supplied >>

TasksAwaitFilesystem ==
  /\ state = APP_STATE_AWAIT_FILESYSTEM
  /\ \E mount_res \in SYS_FS_RESULT :
       LET retries == (mount_retries + 1) % RetryModulus
           mount == FsCall("SYS_FS_Mount", NoHandle)
       IN
       /\ mount_retries' = retries
       /\ IF mount_res = SYS_FS_RES_SUCCESS
            THEN \E drive_res \in SYS_FS_RESULT :
                   LET mounted == Append(debug_log,
                                    DebugMsg("SYS_ERROR_DEBUG",
                                             "SD card mounted after %ld attempts",
                                             "", "", retries))
                       set == FsCall("SYS_FS_CurrentDriveSet", NoHandle)
                   IN
                   /\ IF drive_set_failed(drive_res)
                        THEN /\ Commit(set_state(state,
                                         Append(mounted,
                                           \* the code SYS_FS_Error returns is not modelled
                                           DebugMsg("SYS_ERROR_ERROR",
                                                    "Unable to select drive, error %d",
                                                    "", "", 0)),
                                         APP_STATE_ERROR))
                             /\ Tick(<< mount, set,
                                        FsCall("SYS_FS_Error", NoHandle) >>)
                        ELSE /\ Commit(set_state(state, mounted,
                                                 APP_STATE_OPENING_DIRECTORY))
                             /\ Tick(<< mount, set >>)
                   /\ fs_failed' = IF drive_res = SYS_FS_RES_FAILURE
                                     THEN fs_failed \cup {"SYS_FS_CurrentDriveSet"}
                                     ELSE fs_failed
                   /\ mount_failures' = mount_failures
            ELSE /\ mount_failures < MaxMountFailures
                 /\ mount_failures' = mount_failures + 1
                 /\ fs_failed' = fs_failed \cup {"SYS_FS_Mount"}
                 /\ debug_log' =
                      IF throttle_due(retries)
                        THEN Append(debug_log,
                               DebugMsg("SYS_ERROR_INFO",
                                        "SD card not ready after %ld attempts",
                                        "", "", retries))
                        ELSE debug_log
                 /\ state' = state
                 /\ visited' = visited
                 /\ Tick(<< mount >>)
  /\ UNCHANGED << dir_handle, console, supplied >>

(***************************************************************************)
(* APP_STATE_OPENING_DIRECTORY: open the root directory, keep the handle.  *)
(***************************************************************************)
TasksOpeningDirectory_OpenAndRead ==
  /\ state = APP_STATE_OPENING_DIRECTORY
  /\ \E h \in SYS_FS_HANDLE :
       /\ dir_handle' = h
       /\ IF h # SYS_FS_HANDLE_INVALID
            THEN \E stat \in DirEntries :
                   /\ console' = console \o << HeaderLine, EntryLine(stat) >>
                   /\ supplied' = Append(supplied, stat)
                   /\ Commit(set_state(state, debug_log,
                                       APP_STATE_READING_DIRECTORY))
                   /\ Tick(<< FsCall("SYS_FS_DirOpen", NoHandle),
                              FsCall("SYS_FS_DirRead", h) >>)
            ELSE /\ console' = console
                 /\ supplied' = supplied
                 /\ Commit(set_state(state,
                             Append(debug_log,
                               DebugMsg("SYS_ERROR_ERROR",
                                        "Unable to open directory %s",
                                        "", "", 0)),
                             APP_STATE_ERROR))
                 /\ Tick(<< FsCall("SYS_FS_DirOpen", NoHandle) >>)
       /\ fs_failed' = IF h = SYS_FS_HANDLE_INVALID
                         THEN fs_failed \cup {"SYS_FS_DirOpen"}
                         ELSE fs_failed
  /\ UNCHANGED << mount_retries, mount_failures >>

open_succeeded_Always(h) == TRUE

open_succeeded(h) == h # SYS_FS_HANDLE_INVALID

TasksOpeningDirectory ==
  /\ state = APP_STATE_OPENING_DIRECTORY
  /\ \E h \in SYS_FS_HANDLE :
       /\ dir_handle' = h
       /\ IF open_succeeded(h)
            THEN /\ console' = Append(console, HeaderLine)
                 /\ Commit(set_state(state, debug_log,
                                     APP_STATE_READING_DIRECTORY))
            ELSE /\ console' = console
                 /\ Commit(set_state(state,
                             Append(debug_log,
                               DebugMsg("SYS_ERROR_ERROR",
                                        "Unable to open directory %s",
                                        "", "", 0)),
                             APP_STATE_ERROR))
       /\ fs_failed' = IF h = SYS_FS_HANDLE_INVALID
                         THEN fs_failed \cup {"SYS_FS_DirOpen"}
                         ELSE fs_failed
  /\ Tick(<< FsCall("SYS_FS_DirOpen", NoHandle) >>)
  /\ UNCHANGED << mount_retries, mount_failures, supplied >>

(***************************************************************************)
(* APP_STATE_READING_DIRECTORY: read one entry; print it, or detect the    *)
(* end of the directory, or fail.                                          *)
(***************************************************************************)
IsEndOfDirectory_Either(stat) == stat.lfname = "" \/ stat.fname = ""

IsEndOfDirectory(stat) == stat.lfname = "" /\ stat.fname = ""

read_failed_Ignored(res) == FALSE

read_failed(res) == res = SYS_FS_RES_FAILURE

TasksReadingDirectory ==
  /\ state = APP_STATE_READING_DIRECTORY
  /\ \E res \in SYS_FS_RESULT, stat \in DirEntries \cup {EndOfDirectory} :
       \* the environment: a failed read delivers nothing, and the directory
       \* holds at most MaxEntries entries
       /\ res = SYS_FS_RES_FAILURE => stat = EndOfDirectory
       /\ stat \in DirEntries => Len(supplied) < MaxEntries
       /\ supplied' = IF res = SYS_FS_RES_SUCCESS /\ stat \in DirEntries
                        THEN Append(supplied, stat)
                        ELSE supplied
       /\ fs_failed' = IF res = SYS_FS_RES_FAILURE
                         THEN fs_failed \cup {"SYS_FS_DirRead"}
                         ELSE fs_failed
       \* the code
       /\ IF read_failed(res)
            THEN /\ console' = console
                 /\ Commit(set_state(state,
                             Append(debug_log,
                               DebugMsg("SYS_ERROR_ERROR",
                                        "Unable to read directory %s",
                                        "", "", 0)),
                             APP_STATE_ERROR))
            ELSE IF IsEndOfDirectory(stat)
                   THEN /\ console' = Append(console, CompleteLine)
                        /\ Commit(set_state(state, debug_log,
                                            APP_STATE_CLOSING_DIRECTORY))
                   ELSE /\ console' = Append(console, EntryLine(stat))
                        /\ state' = state
                        /\ debug_log' = debug_log
                        /\ visited' = visited
  /\ Tick(<< FsCall("SYS_FS_DirRead", dir_handle) >>)
  /\ UNCHANGED << mount_retries, dir_handle, mount_failures >>

(***************************************************************************)
(* APP_STATE_CLOSING_DIRECTORY: close, forget the handle, complete.        *)
(***************************************************************************)
TasksClosingDirectory_FailToError ==
  /\ state = APP_STATE_CLOSING_DIRECTORY
  /\ \E res \in SYS_FS_RESULT :
       /\ IF res # SYS_FS_RES_SUCCESS
            THEN /\ Commit(set_state(state,
                             Append(debug_log,
                               DebugMsg("SYS_ERROR_ERROR",
                                        "Closing directory %s failed",
                                        "", "", 0)),
                             APP_STATE_ERROR))
                 /\ dir_handle' = dir_handle
            ELSE /\ Commit(set_state(state, debug_log, APP_STATE_COMPLETE))
                 /\ dir_handle' = SYS_FS_HANDLE_INVALID
       /\ fs_failed' = IF res = SYS_FS_RES_FAILURE
                         THEN fs_failed \cup {"SYS_FS_DirClose"}
                         ELSE fs_failed
  /\ Tick(<< FsCall("SYS_FS_DirClose", dir_handle) >>)
  /\ UNCHANGED << mount_retries, console, mount_failures, supplied >>

\* prints the closing line when the directory is closed
TasksClosingDirectory_PrintsComplete ==
  /\ state = APP_STATE_CLOSING_DIRECTORY
  /\ \E res \in SYS_FS_RESULT :
       /\ Commit(set_state(state,
                   IF res # SYS_FS_RES_SUCCESS
                     THEN Append(debug_log,
                            DebugMsg("SYS_ERROR_ERROR",
                                     "Closing directory %s failed",
                                     "", "", 0))
                     ELSE debug_log,
                   APP_STATE_COMPLETE))
       /\ fs_failed' = IF res = SYS_FS_RES_FAILURE
                         THEN fs_failed \cup {"SYS_FS_DirClose"}
                         ELSE fs_failed
  /\ console' = Append(console, CompleteLine)
  /\ dir_handle' = SYS_FS_HANDLE_INVALID
  /\ Tick(<< FsCall("SYS_FS_DirClose", dir_handle) >>)
  /\ UNCHANGED << mount_retries, mount_failures, supplied >>

TasksClosingDirectory ==
  /\ state = APP_STATE_CLOSING_DIRECTORY
  /\ \E res \in SYS_FS_RESULT :
       /\ Commit(set_state(state,
                   IF res # SYS_FS_RES_SUCCESS
                     THEN Append(debug_log,
                            DebugMsg("SYS_ERROR_ERROR",
                                     "Closing directory %s failed",
                                     "", "", 0))
                     ELSE debug_log,
                   APP_STATE_COMPLETE))
       /\ fs_failed' = IF res = SYS_FS_RES_FAILURE
                         THEN fs_failed \cup {"SYS_FS_DirClose"}
                         ELSE fs_failed
  /\ dir_handle' = SYS_FS_HANDLE_INVALID
  /\ Tick(<< FsCall("SYS_FS_DirClose", dir_handle) >>)
  /\ UNCHANGED << mount_retries, console, mount_failures, supplied >>

(***************************************************************************)
(* APP_STATE_COMPLETE and APP_STATE_ERROR: nothing to do.  The model       *)
(* counts the first MaxTerminalTicks calls.                                *)
(***************************************************************************)
TasksComplete_Restart ==
  /\ state = APP_STATE_COMPLETE
  /\ ticks[state] < MaxTerminalTicks
  /\ Commit(set_state(state, debug_log, APP_STATE_IDLE))
  /\ Tick(<< >>)
  /\ UNCHANGED << mount_retries, dir_handle, console, fs_failed,
                  mount_failures, supplied >>

TasksComplete ==
  /\ state = APP_STATE_COMPLETE
  /\ ticks[state] < MaxTerminalTicks
  /\ Tick(<< >>)
  /\ UNCHANGED << state, mount_retries, dir_handle, debug_log, console,
                  fs_failed, mount_failures, supplied, visited >>

TasksError_CloseLeftOpen ==
  /\ state = APP_STATE_ERROR
  /\ ticks[state] < MaxTerminalTicks
  /\ IF dir_handle # SYS_FS_HANDLE_INVALID
       THEN /\ Tick(<< FsCall("SYS_FS_DirClose", dir_handle) >>)
            /\ dir_handle' = SYS_FS_HANDLE_INVALID
       ELSE /\ Tick(<< >>)
            /\ dir_handle' = dir_handle
  /\ UNCHANGED << state, mount_retries, debug_log, console,
                  fs_failed, mount_failures, supplied, visited >>

TasksError ==
  /\ state = APP_STATE_ERROR
  /\ ticks[state] < MaxTerminalTicks
  /\ Tick(<< >>)
  /\ UNCHANGED << state, mount_retries, dir_handle, debug_log, console,
                  fs_failed, mount_failures, supplied, visited >>

APP_Tasks ==
  \/ TasksIdle
  \/ TasksAwaitFilesystem
  \/ TasksOpeningDirectory
  \/ TasksReadingDirectory
  \/ TasksClosingDirectory
  \/ TasksComplete
  \/ TasksError

Next == APP_Tasks

Spec == Init /\ [][Next]_vars

(***************************************************************************)
(* set_state called directly, on every context APP_Tasks can leave behind  *)
(* and with every requested state.                                         *)
(***************************************************************************)
\* transition logs a direct-call run may add
MaxSetStateLogs == 2

CtxShape ==
  /\ state \in States
  /\ mount_retries \in 0 .. RetryModulus - 1
  /\ dir_handle \in SYS_FS_HANDLE
  /\ state = APP_STATE_IDLE => mount_retries = 0
  /\ state \in {APP_STATE_IDLE, APP_STATE_AWAIT_FILESYSTEM,
                APP_STATE_OPENING_DIRECTORY, APP_STATE_COMPLETE}
       => dir_handle = SYS_FS_HANDLE_INVALID
  /\ state \in {APP_STATE_READING_DIRECTORY, APP_STATE_CLOSING_DIRECTORY}
       => dir_handle \in ValidHandles

InitSetState ==
  /\ CtxShape
  /\ debug_log = << >>
  /\ console = << Banner >>
  /\ fs_calls = << >>
  /\ fs_count = [op \in FsOps |-> 0]
  /\ fs_failed = {}
  /\ mount_failures = 0
  /\ supplied = << >>
  /\ ticks = [s \in States |-> 0]
  /\ visited = << state >>
  /\ ss_arg = -1

SetStateCall(t) ==
  /\ Len(debug_log) < MaxSetStateLogs
  /\ Commit(set_state(state, debug_log, t))
  /\ ss_arg' = t
  /\ UNCHANGED << mount_retries, dir_handle, console, fs_calls, fs_count,
                  fs_failed, mount_failures, supplied, ticks >>

NextSetState == \E t \in States : SetStateCall(t)

SpecSetState == InitSetState /\ [][NextSetState]_vars


(***************************************************************************)
(* What the claims read off the logs and the console.                      *)
(***************************************************************************)
RECURSIVE Select(_, _, _)
\* the elements of the sequence q whose format is fmt, in order, from index i on
Select(q, fmt, i) ==
  IF i > Len(q) THEN << >>
  ELSE IF q[i].fmt = fmt THEN << q[i] >> \o Select(q, fmt, i + 1)
  ELSE Select(q, fmt, i + 1)

TransitionLogs == Select(debug_log, "%s => %s", 1)
NotReadyLogs == Select(debug_log, "SD card not ready after %ld attempts", 1)
EntryLines == Select(console, "%12ld %s", 1)
CompleteLines == Select(console, "Directory listing complete", 1)

\* the entry lines a sequence of delivered entries should give
LinesOf(entries) == [i \in 1 .. Len(entries) |-> EntryLine(entries[i])]

\* the state has left APP_STATE_AWAIT_FILESYSTEM
LeftAwait == state \notin {APP_STATE_IDLE, APP_STATE_AWAIT_FILESYSTEM}

FatalOps == {"SYS_FS_CurrentDriveSet", "SYS_FS_DirOpen", "SYS_FS_DirRead"}

(***************************************************************************)
(* C1: once the state is APP_STATE_COMPLETE or APP_STATE_ERROR, a call of  *)
(* APP_Tasks leaves state, mount_retries and dir_handle unchanged and      *)
(* emits no log (so no transition log), however many calls follow.         *)
(***************************************************************************)
TerminalTickIsNoOp ==
  state \in TerminalStates =>
    /\ state' = state
    /\ mount_retries' = mount_retries
    /\ dir_handle' = dir_handle
    /\ debug_log' = debug_log

C1_TerminalTickIsNoOp == [][TerminalTickIsNoOp]_vars

\* APP_Tasks has been called MaxTerminalTicks times in APP_STATE_COMPLETE
C1_Witness ==
  /\ state = APP_STATE_COMPLETE
  /\ ticks[APP_STATE_COMPLETE] = MaxTerminalTicks

(***************************************************************************)
(* C2: set_state(t) in state s: when t = s it emits no log and leaves the  *)
(* context unchanged; when t # s it appends exactly one transition log     *)
(* naming s then t and the state becomes t; a second set_state(t) changes  *)
(* nothing.                                                                *)
(***************************************************************************)
SetStateContract(t) ==
  SetStateCall(t) =>
    /\ t = state => UNCHANGED << ctx, debug_log >>
    /\ t # state =>
         /\ state' = t
         /\ debug_log' = Append(debug_log,
                           DebugMsg("SYS_ERROR_DEBUG", "%s => %s",
                                    s_state_names[state + 1],
                                    s_state_names[t + 1], 0))
         /\ UNCHANGED << mount_retries, dir_handle >>
    /\ ss_arg = t => UNCHANGED << ctx, debug_log >>

C2_SetState == [][\A t \in States : SetStateContract(t)]_vars

\* set_state was called with a state other than the current one, and then
\* with the current one
C2_Witness ==
  /\ ss_arg = state
  /\ Len(debug_log) = 1
  /\ Len(visited) = 2

(***************************************************************************)
(* C3: when the directory delivers N entries and then its terminator, and  *)
(* no read fails, APP_Tasks runs N+1 times in APP_STATE_READING_DIRECTORY  *)
(* before the state is APP_STATE_CLOSING_DIRECTORY; each of the first N    *)
(* runs prints one entry line, the i-th line for the i-th entry, and the   *)
(* last run prints none.                                                   *)
(***************************************************************************)
C3_ReadLoop ==
  /\ state = APP_STATE_READING_DIRECTORY =>
       /\ ticks[APP_STATE_READING_DIRECTORY] = Len(supplied)
       /\ EntryLines = LinesOf(supplied)
  /\ state \in {APP_STATE_CLOSING_DIRECTORY, APP_STATE_COMPLETE} =>
       /\ ticks[APP_STATE_READING_DIRECTORY] = Len(supplied) + 1
       /\ fs_count["SYS_FS_DirRead"] = Len(supplied) + 1
       /\ EntryLines = LinesOf(supplied)

\* two different entries and the terminator were read
C3_Witness ==
  /\ state = APP_STATE_CLOSING_DIRECTORY
  /\ Len(supplied) >= 2
  /\ supplied[1] # supplied[2]
  /\ supplied[1].fname = ""

(***************************************************************************)
(* C4: after K failed SYS_FS_Mount attempts and one successful attempt,    *)
(* mount_retries = K+1 when the state has left APP_STATE_AWAIT_FILESYSTEM. *)
(***************************************************************************)
C4_RetriesIsAttempts ==
  LeftAwait => mount_retries = mount_failures + 1

(***************************************************************************)
(* C5: after K failed SYS_FS_Mount attempts and one successful attempt,    *)
(* floor((K+1) / interval) "SD card not ready" logs have been emitted when *)
(* the state has left APP_STATE_AWAIT_FILESYSTEM.                          *)
(***************************************************************************)
C5_LogsPerAttempt ==
  LeftAwait => Len(NotReadyLogs) = (mount_failures + 1) \div ThrottleInterval

(***************************************************************************)
(* C5 as amended: the successful attempt emits no "not ready" log, so the  *)
(* logs are those of the failed attempts j in 1..K at which the counter,   *)
(* j modulo 2^width, is a multiple of the interval: floor(K / interval)    *)
(* of them as long as the counter has not wrapped.                         *)
(***************************************************************************)
C5_LogsPerFailure ==
  LeftAwait =>
    /\ Len(NotReadyLogs) =
         Cardinality({j \in 1 .. mount_failures :
                        (j % RetryModulus) % ThrottleInterval = 0})
    /\ mount_failures < RetryModulus =>
         Len(NotReadyLogs) = mount_failures \div ThrottleInterval

\* the successful attempt was a multiple of the interval, after a logged failure
C5_Witness ==
  /\ state = APP_STATE_OPENING_DIRECTORY
  /\ (mount_failures + 1) % ThrottleInterval = 0
  /\ mount_failures < RetryModulus
  /\ Len(NotReadyLogs) >= 1

(***************************************************************************)
(* C6: a failure of SYS_FS_Mount, SYS_FS_CurrentDriveSet, SYS_FS_DirOpen   *)
(* or SYS_FS_DirRead puts the machine in APP_STATE_ERROR, and it is in no  *)
(* other state afterwards.                                                 *)
(***************************************************************************)
C6_AnyFailureIsError ==
  fs_failed \cap (FatalOps \cup {"SYS_FS_Mount"}) # {} => state = APP_STATE_ERROR

(***************************************************************************)
(* C6 as amended: a failure of SYS_FS_CurrentDriveSet, SYS_FS_DirOpen or   *)
(* SYS_FS_DirRead puts the machine in APP_STATE_ERROR in the same call and *)
(* it is in no other state afterwards; a failure of SYS_FS_Mount does not: *)
(* the machine stays in APP_STATE_AWAIT_FILESYSTEM, and APP_STATE_ERROR is *)
(* reached through one of the three other failures only.                   *)
(***************************************************************************)
C6_FatalFailureIsError ==
  /\ fs_failed \cap FatalOps # {} => state = APP_STATE_ERROR
  /\ state = APP_STATE_ERROR => fs_failed \cap FatalOps # {}
  /\ (fs_calls # << >> /\ fs_calls[Len(fs_calls)].op = "SYS_FS_Mount")
       => state = APP_STATE_AWAIT_FILESYSTEM

\* a read failed after mount failures, and APP_Tasks was called again
C6_Witness ==
  /\ state = APP_STATE_ERROR
  /\ {"SYS_FS_Mount", "SYS_FS_DirRead"} \subseteq fs_failed
  /\ ticks[APP_STATE_ERROR] >= 1

(***************************************************************************)
(* C7: once the state is APP_STATE_ERROR, no call of APP_Tasks calls any   *)
(* SYS_FS_* function.                                                      *)
(***************************************************************************)
NoFsCallInError ==
  state = APP_STATE_ERROR =>
    /\ fs_calls' = << >>
    /\ fs_count' = fs_count

C7_NoFsCallInError == [][NoFsCallInError]_vars

\* APP_Tasks was called in APP_STATE_ERROR with the directory still open
C7_Witness ==
  /\ state = APP_STATE_ERROR
  /\ ticks[APP_STATE_ERROR] >= 1
  /\ dir_handle \in ValidHandles

(***************************************************************************)
(* C8: the call executed in APP_STATE_CLOSING_DIRECTORY ends in            *)
(* APP_STATE_COMPLETE with dir_handle = SYS_FS_HANDLE_INVALID whether      *)
(* SYS_FS_DirClose succeeds or fails; a close failure never leads to       *)
(* APP_STATE_ERROR.                                                        *)
(***************************************************************************)
C8_CloseAlwaysCompletes ==
  ticks[APP_STATE_CLOSING_DIRECTORY] >= 1 =>
    /\ state = APP_STATE_COMPLETE
    /\ dir_handle = SYS_FS_HANDLE_INVALID
    /\ ticks[APP_STATE_CLOSING_DIRECTORY] = 1

\* SYS_FS_DirClose failed
C8_Witness ==
  /\ "SYS_FS_DirClose" \in fs_failed
  /\ state = APP_STATE_COMPLETE
  /\ fs_calls = << FsCall("SYS_FS_DirClose", "h2") >>

(***************************************************************************)
(* C9: when mount, drive selection and open succeed at the first attempt   *)
(* and the first read reports the end of the directory, the states are     *)
(* entered in the order Idle, AwaitFilesystem, OpeningDirectory,           *)
(* ReadingDirectory, ClosingDirectory, Complete, with one call in each     *)
(* non-terminal state, no entry line and one "Directory listing complete". *)
(***************************************************************************)
EmptyDirectoryRun ==
  /\ mount_failures = 0
  /\ supplied = << >>
  /\ fs_failed \subseteq {"SYS_FS_DirClose"}

C9_EmptyDirectory ==
  EmptyDirectoryRun =>
    /\ visited = [i \in 1 .. Len(visited) |-> i - 1]
    /\ visited[Len(visited)] = state
    /\ \A s \in States \ TerminalStates :
         ticks[s] = IF s < state THEN 1 ELSE 0
    /\ EntryLines = << >>
    /\ Len(CompleteLines) =
         IF state \in {APP_STATE_CLOSING_DIRECTORY, APP_STATE_COMPLETE}
           THEN 1 ELSE 0
    /\ state # APP_STATE_ERROR

\* the run of an empty directory has reached APP_STATE_COMPLETE
C9_Witness ==
  /\ EmptyDirectoryRun
  /\ state = APP_STATE_COMPLETE
  /\ visited = << APP_STATE_IDLE, APP_STATE_AWAIT_FILESYSTEM,
                  APP_STATE_OPENING_DIRECTORY, APP_STATE_READING_DIRECTORY,
                  APP_STATE_CLOSING_DIRECTORY, APP_STATE_COMPLETE >>

(***************************************************************************)
(* C10: between calls of APP_Tasks, dir_handle is SYS_FS_HANDLE_INVALID    *)
(* whenever the state is Idle, AwaitFilesystem, Complete or Error.         *)
(***************************************************************************)
C10_HandleOnlyWhileEnumerating ==
  state \in {APP_STATE_IDLE, APP_STATE_AWAIT_FILESYSTEM,
             APP_STATE_COMPLETE, APP_STATE_ERROR}
    => dir_handle = SYS_FS_HANDLE_INVALID

(***************************************************************************)
(* C11: from one call of APP_Tasks to the next, mount_retries never        *)
(* decreases, mount_retries being the fixed-width counter it is.           *)
(***************************************************************************)
RetriesNeverDecrease == mount_retries' >= mount_retries

C11_RetriesMonotonic == [][RetriesNeverDecrease]_vars

(***************************************************************************)
(* C12: a call of APP_Tasks performs at most one of the units of work      *)
(* mount attempt, directory open, directory-entry read, directory close:   *)
(* never two SYS_FS_DirRead, never two SYS_FS_Mount, never two different   *)
(* units.                                                                  *)
(***************************************************************************)
UnitsOfWork == {"SYS_FS_Mount", "SYS_FS_DirOpen", "SYS_FS_DirRead",
                "SYS_FS_DirClose"}

C12_OneUnitPerCall ==
  Cardinality({i \in 1 .. Len(fs_calls) : fs_calls[i].op \in UnitsOfWork}) <= 1

\* the call that makes the most SYS_FS_* calls: mount, select drive, read the error
C12_Witness ==
  /\ Len(fs_calls) = 3
  /\ fs_calls[1].op = "SYS_FS_Mount"
  /\ state = APP_STATE_ERROR

(***************************************************************************)
(* C13: a failure of SYS_FS_CurrentDriveSet, of SYS_FS_DirOpen or of       *)
(* SYS_FS_DirRead leaves the machine in APP_STATE_ERROR at the end of the  *)
(* call in which it occurs, and the failed function is not called again;   *)
(* after a drive-select failure SYS_FS_DirOpen is never called, and after  *)
(* an open failure SYS_FS_DirRead and SYS_FS_DirClose are never called.    *)
(***************************************************************************)
C13_FatalFailureNotRetried ==
  /\ fs_failed \cap FatalOps # {} => state = APP_STATE_ERROR
  /\ "SYS_FS_CurrentDriveSet" \in fs_failed =>
       /\ fs_count["SYS_FS_CurrentDriveSet"] = 1
       /\ fs_count["SYS_FS_DirOpen"] = 0
  /\ "SYS_FS_DirOpen" \in fs_failed =>
       /\ fs_count["SYS_FS_DirOpen"] = 1
       /\ fs_count["SYS_FS_DirRead"] = 0
       /\ fs_count["SYS_FS_DirClose"] = 0
  \* the failed read is the last one: one read per delivered entry before it
  /\ "SYS_FS_DirRead" \in fs_failed =>
       /\ fs_count["SYS_FS_DirRead"] = Len(supplied) + 1
       /\ fs_count["SYS_FS_DirClose"] = 0

\* the open failed, and APP_Tasks went on being called
C13_Witness ==
  /\ "SYS_FS_DirOpen" \in fs_failed
  /\ state = APP_STATE_ERROR
  /\ ticks[APP_STATE_ERROR] = MaxTerminalTicks

(***************************************************************************)
(* C14: a failed SYS_FS_Mount leaves the state at                          *)
(* APP_STATE_AWAIT_FILESYSTEM, emits no transition log and leaves          *)
(* dir_handle unchanged; as long as every mount attempt has failed the     *)
(* machine is in APP_STATE_AWAIT_FILESYSTEM (or still Idle), after any     *)
(* number of calls.                                                        *)
(***************************************************************************)
MountFailureKeepsWaiting ==
  (state = APP_STATE_AWAIT_FILESYSTEM /\ mount_failures' = mount_failures + 1)
    => /\ state' = APP_STATE_AWAIT_FILESYSTEM
       /\ dir_handle' = dir_handle
       /\ Select(debug_log', "%s => %s", 1) = TransitionLogs
       /\ visited' = visited

NoMountSucceededYet == fs_count["SYS_FS_Mount"] = mount_failures

C14_MountFailureIsNotAnError ==
  /\ [](NoMountSucceededYet =>
          state \in {APP_STATE_IDLE, APP_STATE_AWAIT_FILESYSTEM})
  /\ [][MountFailureKeepsWaiting]_vars

\* more mount attempts have failed than the counter can count
C14_Witness ==
  /\ state = APP_STATE_AWAIT_FILESYSTEM
  /\ mount_failures > RetryModulus
  /\ fs_count["SYS_FS_Mount"] = mount_failures

(***************************************************************************)
(* C15: every call of APP_Tasks executed in APP_STATE_AWAIT_FILESYSTEM     *)
(* increments mount_retries by exactly one, whether the mount succeeds or  *)
(* fails; a call executed in any other state leaves it unchanged; it goes  *)
(* back to 0 in APP_Initialize only.                                       *)
(***************************************************************************)
RetriesCountAwaitCalls ==
  /\ state = APP_STATE_AWAIT_FILESYSTEM => mount_retries' = mount_retries + 1
  /\ state # APP_STATE_AWAIT_FILESYSTEM => mount_retries' = mount_retries
  /\ mount_retries # 0 => mount_retries' # 0

C15_RetriesCountAwaitCalls == [][RetriesCountAwaitCalls]_vars

(***************************************************************************)
(* C16: a call of APP_Tasks that ends in another state than it started in  *)
(* emits exactly one transition log, naming the state at the start and the *)
(* state at the end; a call that ends in the state it started in emits no  *)
(* transition log.                                                         *)
(***************************************************************************)
TransitionLoggedOnce ==
  Select(debug_log', "%s => %s", 1) =
    IF state' # state
      THEN Append(TransitionLogs,
                  DebugMsg("SYS_ERROR_DEBUG", "%s => %s",
                           s_state_names[state + 1], s_state_names[state' + 1],
                           0))
      ELSE TransitionLogs

C16_OneLogPerTransition == [][TransitionLoggedOnce]_vars

\* a complete run with calls that changed the state and calls that did not
C16_Witness ==
  /\ state = APP_STATE_COMPLETE
  /\ Len(TransitionLogs) = 5
  /\ Len(supplied) >= 1
  /\ mount_failures >= ThrottleInterval

(***************************************************************************)
(* C17: the console output is ordered: the header line is printed once,    *)
(* and only when SYS_FS_DirOpen has succeeded; every entry line comes      *)
(* after the header and before the "Directory listing complete" line;      *)
(* that line is printed at most once, and only in the call that moves      *)
(* ReadingDirectory to ClosingDirectory; a run whose directory was never   *)
(* opened prints no header and no entry line.                              *)
(***************************************************************************)
DirectoryOpened ==
  /\ fs_count["SYS_FS_DirOpen"] >= 1
  /\ "SYS_FS_DirOpen" \notin fs_failed

ConsoleInOrder ==
  /\ console = << Banner >> \o
                 (IF DirectoryOpened
                    THEN << HeaderLine >> \o EntryLines \o CompleteLines
                    ELSE << >>)
  /\ Len(CompleteLines) <= 1

CompleteLineOnlyAtEnd ==
  Select(console', "Directory listing complete", 1) # CompleteLines
    => /\ state = APP_STATE_READING_DIRECTORY
       /\ state' = APP_STATE_CLOSING_DIRECTORY

C17_ConsoleOrder ==
  /\ []ConsoleInOrder
  /\ [][CompleteLineOnlyAtEnd]_vars

\* header, MaxEntries entry lines and the closing line have been printed
C17_Witness ==
  /\ state = APP_STATE_COMPLETE
  /\ Len(EntryLines) = MaxEntries
  /\ Len(console) = MaxEntries + 3
  /\ console[Len(console)] = CompleteLine

(***************************************************************************)
(* C18: every call of APP_Tasks follows one of the edges of the state      *)
(* graph, so the state never moves back; Idle, OpeningDirectory and        *)
(* ClosingDirectory are each occupied for exactly one call; Complete is    *)
(* entered from ClosingDirectory only.                                     *)
(***************************************************************************)
Edges ==
  { << APP_STATE_IDLE, APP_STATE_AWAIT_FILESYSTEM >>,
    << APP_STATE_AWAIT_FILESYSTEM, APP_STATE_AWAIT_FILESYSTEM >>,
    << APP_STATE_AWAIT_FILESYSTEM, APP_STATE_OPENING_DIRECTORY >>,
    << APP_STATE_AWAIT_FILESYSTEM, APP_STATE_ERROR >>,
    << APP_STATE_OPENING_DIRECTORY, APP_STATE_READING_DIRECTORY >>,
    << APP_STATE_OPENING_DIRECTORY, APP_STATE_ERROR >>,
    << APP_STATE_READING_DIRECTORY, APP_STATE_READING_DIRECTORY >>,
    << APP_STATE_READING_DIRECTORY, APP_STATE_CLOSING_DIRECTORY >>,
    << APP_STATE_READING_DIRECTORY, APP_STATE_ERROR >>,
    << APP_STATE_CLOSING_DIRECTORY, APP_STATE_COMPLETE >>,
    << APP_STATE_COMPLETE, APP_STATE_COMPLETE >>,
    << APP_STATE_ERROR, APP_STATE_ERROR >> }

StepFollowsEdge ==
  /\ << state, state' >> \in Edges
  /\ state' >= state

HasLeft(s) == state # s /\ \E i \in 1 .. Len(visited) : visited[i] = s

OneCallStates ==
  /\ \A s \in {APP_STATE_IDLE, APP_STATE_OPENING_DIRECTORY,
               APP_STATE_CLOSING_DIRECTORY} :
       ticks[s] = IF HasLeft(s) THEN 1 ELSE 0
  /\ \A i \in 2 .. Len(visited) :
       visited[i] = APP_STATE_COMPLETE
         => visited[i - 1] = APP_STATE_CLOSING_DIRECTORY

C18_StateGraph ==
  /\ []OneCallStates
  /\ [][StepFollowsEdge]_vars

\* a run that waited, read entries and ended in the error state
C18_Witness ==
  /\ state = APP_STATE_ERROR
  /\ visited = << APP_STATE_IDLE, APP_STATE_AWAIT_FILESYSTEM,
                  APP_STATE_OPENING_DIRECTORY, APP_STATE_READING_DIRECTORY,
                  APP_STATE_ERROR >>
  /\ ticks[APP_STATE_AWAIT_FILESYSTEM] >= 2
  /\ ticks[APP_STATE_READING_DIRECTORY] >= 2

(***************************************************************************)
(* C19: in ReadingDirectory and ClosingDirectory dir_handle is the valid   *)
(* handle the one successful SYS_FS_DirOpen returned, so SYS_FS_DirRead    *)
(* and SYS_FS_DirClose are never called with SYS_FS_HANDLE_INVALID;        *)
(* SYS_FS_DirOpen and SYS_FS_DirClose are called at most once,             *)
(* SYS_FS_DirClose only after a successful open; SYS_FS_Mount is not       *)
(* called again once it has succeeded.                                     *)
(***************************************************************************)
HandleCalls(calls) ==
  {i \in 1 .. Len(calls) : calls[i].op \in {"SYS_FS_DirRead", "SYS_FS_DirClose"}}

HandleIsValidWhileOpen ==
  /\ state \in {APP_STATE_READING_DIRECTORY, APP_STATE_CLOSING_DIRECTORY}
       => dir_handle \in ValidHandles
  /\ \A i \in HandleCalls(fs_calls) : fs_calls[i].handle \in ValidHandles
  /\ fs_count["SYS_FS_DirOpen"] <= 1
  /\ fs_count["SYS_FS_DirClose"] <= 1
  /\ fs_count["SYS_FS_DirClose"] = 1 => DirectoryOpened
  /\ fs_count["SYS_FS_Mount"] <= mount_failures + 1

HandleIsTheOneOpened ==
  /\ state \in {APP_STATE_READING_DIRECTORY, APP_STATE_CLOSING_DIRECTORY}
       => \A i \in HandleCalls(fs_calls') : fs_calls'[i].handle = dir_handle
  /\ state = APP_STATE_READING_DIRECTORY => dir_handle' = dir_handle
  \* a successful mount is the last call of SYS_FS_Mount
  /\ fs_count["SYS_FS_Mount"] > mount_failures
       => fs_count'["SYS_FS_Mount"] = fs_count["SYS_FS_Mount"]

C19_HandleDiscipline ==
  /\ []HandleIsValidWhileOpen
  /\ [][HandleIsTheOneOpened]_vars

\* the directory opened as h1 is about to be closed, after several reads
C19_Witness ==
  /\ state = APP_STATE_CLOSING_DIRECTORY
  /\ dir_handle = "h1"
  /\ fs_calls = << FsCall("SYS_FS_DirRead", "h1") >>
  /\ fs_count["SYS_FS_DirRead"] >= 2
  /\ fs_count["SYS_FS_Mount"] >= 2

(***************************************************************************)
(* C20: when APP_Tasks is called forever, a mount attempt succeeds and the *)
(* directory delivers finitely many entries, the machine ends up in        *)
(* APP_STATE_COMPLETE or APP_STATE_ERROR and stays there: in               *)
(* APP_STATE_COMPLETE when none of drive selection, open and read failed.  *)
(* The superloop calls APP_Tasks again and again: weak fairness of Next.   *)
(***************************************************************************)
LiveSpec == Init /\ [][Next]_vars /\ WF_vars(Next)

MountSucceeded == fs_count["SYS_FS_CurrentDriveSet"] >= 1

Settled ==
  \/ state = APP_STATE_COMPLETE /\ fs_failed \cap FatalOps = {}
  \/ state = APP_STATE_ERROR /\ fs_failed \cap FatalOps # {}

C20_Terminates == (<>MountSucceeded) => <>[]Settled

\* a run with mount failures and a full directory has settled in Complete
C20_Witness ==
  /\ state = APP_STATE_COMPLETE
  /\ ticks[APP_STATE_COMPLETE] = MaxTerminalTicks
  /\ mount_failures >= 1
  /\ Len(supplied) = MaxEntries
  /\ MountSucceeded

=============================================================================
